---- MODULE Spec2Model ----
(***************************************************************************)
(* Model of the ML_Weather fetch scripts: the day / year / chunk range     *)
(* fetchers, the row normalizers and the window filter + deduplicate +     *)
(* sort tail of each assembler.                                            *)
(*                                                                         *)
(* Time is counted in ticks.  One tick is the one microsecond the scripts  *)
(* subtract from the end of the window, a day is DayLen ticks, and a date  *)
(* is a day number.  Station ids are numbers, ordered as the id strings.   *)
(***************************************************************************)
EXTENDS Integers, Sequences, FiniteSets, TLC

\* ------------------------------------------------------------------ bounds
DayLen == 2
NumStations == 2
MaxRows == 1
DaysPerYear == 1
NoaaSpanDays == 15
MaxHeader == 4
MaxTableCols == 20
MaxPwsCols == 3

\* ------------------------------------------------------- program constants
START_DATE == 1
END_DATE == 2
Microsecond == 1
CHUNK_DAYS == 7

Stations == 1 .. NumStations
NaT == -1

Midnight(d) == d * DayLen
YearOf(d) == d \div DaysPerYear

\* Instants a provider may put in a response: from before the window to the
\* first instant after it.
TimeVals == 0 .. Midnight(END_DATE + 1)

Progs == {"build", "pwsall", "airport", "buoy", "noaa"}

\* ------------------------------------------------------------ data frames
\* A row of a frame.  tz is the clock domain of the timestamp value, req the
\* number of the request that delivered the row.
Row(sid, ts, tz, req) ==
    [station_id |-> sid, timestamp |-> ts, tz |-> tz, req |-> req]

\* A frame is its rows and the dtype of its timestamp column:
\* "aware" (datetime64[ns, UTC]), "naive" (datetime64[ns]) or "object".
Frame(dtype, rows) == [dtype |-> dtype, rows |-> rows]

RECURSIVE Flatten(_)
Flatten(ss) == IF ss = <<>> THEN <<>> ELSE Head(ss) \o Flatten(Tail(ss))

IsAllNA(f) == \A i \in 1 .. Len(f.rows) : f.rows[i].timestamp = NaT

\* pd.concat: the rows in order; the common dtype of the timestamp columns.
\* ign: this pandas leaves all-NA columns out when it determines the dtype.
Concat(frames, ign) ==
    LET idx == 1 .. Len(frames)
        live == {i \in idx : ~IsAllNA(frames[i])}
        used == IF ign /\ live # {} THEN live ELSE idx
        dts == {frames[i].dtype : i \in used}
    IN Frame(IF Cardinality(dts) = 1 THEN CHOOSE d \in dts : TRUE ELSE "object",
             Flatten([i \in idx |-> frames[i].rows]))

\* Comparing the timestamp column with a boundary of clock domain btz raises
\* TypeError: by dtype for a datetime column, element by element for an
\* object column.
CmpRaises(f, btz) ==
    IF f.dtype = "object"
    THEN \E i \in 1 .. Len(f.rows) :
            f.rows[i].timestamp # NaT /\ f.rows[i].tz # btz
    ELSE f.dtype # btz

\* The clock domains such a comparison brings together, as <<timestamp,
\* boundary>>, one pair for each timestamp value of the column.
CmpDomains(f, btz) ==
    {<<f.rows[i].tz, btz>> : i \in {j \in 1 .. Len(f.rows) : f.rows[j].timestamp # NaT}}

\* df[ts.notna() & (ts >= lo) & (ts <= hi)]
InWindow(r, lo, hi) == r.timestamp # NaT /\ r.timestamp >= lo /\ r.timestamp <= hi
WindowFilter(rows, lo, hi) == SelectSeq(rows, LAMBDA r : InWindow(r, lo, hi))

SameKey(a, b) == a.station_id = b.station_id /\ a.timestamp = b.timestamp

\* drop_duplicates() without the subset: rows equal in every column.
DropDuplicatesAllColumns(rows) ==
    LET keep(i) == \A j \in 1 .. (i - 1) : rows[j] # rows[i]
        RECURSIVE pick(_)
        pick(i) == IF i > Len(rows) THEN <<>>
                   ELSE (IF keep(i) THEN <<rows[i]>> ELSE <<>>) \o pick(i + 1)
    IN pick(1)

\* drop_duplicates(subset=[...], keep="last").
DropDuplicatesKeepLast(rows) ==
    LET keep(i) == \A j \in (i + 1) .. Len(rows) : ~SameKey(rows[j], rows[i])
        RECURSIVE pick(_)
        pick(i) == IF i > Len(rows) THEN <<>>
                   ELSE (IF keep(i) THEN <<rows[i]>> ELSE <<>>) \o pick(i + 1)
    IN pick(1)

\* drop_duplicates(subset=["station_id", "timestamp"]): keep the first.
DropDuplicates(rows) ==
    LET keep(i) == \A j \in 1 .. (i - 1) : ~SameKey(rows[j], rows[i])
        RECURSIVE pick(_)
        pick(i) == IF i > Len(rows) THEN <<>>
                   ELSE (IF keep(i) THEN <<rows[i]>> ELSE <<>>) \o pick(i + 1)
    IN pick(1)

\* Order of sort_values("timestamp"): the station id left out.
KeyLeqTimestampOnly(a, b) ==
    b.timestamp = NaT \/ (a.timestamp # NaT /\ a.timestamp <= b.timestamp)

\* Order of sort_values(["station_id", "timestamp"]); NaT sorts last.
KeyLeq(a, b) ==
    \/ a.station_id < b.station_id
    \/ /\ a.station_id = b.station_id
       /\ \/ b.timestamp = NaT
          \/ a.timestamp # NaT /\ a.timestamp <= b.timestamp

RECURSIVE Insert(_, _)
Insert(r, s) ==
    IF s = <<>> THEN <<r>>
    ELSE IF KeyLeq(Head(s), r) THEN <<Head(s)>> \o Insert(r, Tail(s))
    ELSE <<r>> \o s

\* A sort that stops after one pass of exchanges of neighbours.
RECURSIVE SortValuesOnePass(_)
SortValuesOnePass(rows) ==
    IF Len(rows) < 2 THEN rows
    ELSE IF KeyLeq(rows[1], rows[2])
    THEN <<rows[1]>> \o SortValuesOnePass(Tail(rows))
    ELSE <<rows[2]>> \o SortValuesOnePass(<<rows[1]>> \o SubSeq(rows, 3, Len(rows)))

RECURSIVE SortValues(_)
SortValues(rows) ==
    IF rows = <<>> THEN <<>>
    ELSE Insert(rows[Len(rows)], SortValues(SubSeq(rows, 1, Len(rows) - 1)))

\* Order of sort_values("timestamp") inside one chunk; NaT sorts last.
TimeLeq(a, b) == b.timestamp = NaT \/ (a.timestamp # NaT /\ a.timestamp <= b.timestamp)

RECURSIVE InsertByTime(_, _)
InsertByTime(r, s) ==
    IF s = <<>> THEN <<r>>
    ELSE IF TimeLeq(Head(s), r) THEN <<Head(s)>> \o InsertByTime(r, Tail(s))
    ELSE <<r>> \o s

RECURSIVE SortByTime(_)
SortByTime(rows) ==
    IF rows = <<>> THEN <<>>
    ELSE InsertByTime(rows[Len(rows)], SortByTime(SubSeq(rows, 1, Len(rows) - 1)))

\* ------------------------------------------------------------------ state
VARIABLES
    prog,            \* the script that runs
    backend,         \* the Station Directory module behind get_station_info
    api_key,         \* WEATHER_API_KEY is set
    ids,             \* the station ids of the run, in iteration order
    station_windows, \* build_combined_pws_observations: station -> start date
    pc,              \* position of the run
    status,          \* "running", "returned" or "raised"
    exc,             \* the exception that ended a raised run
    si,              \* index in ids of the station being fetched
    cur,             \* the next chunk of the current station
    all_dfs,         \* frames collected by the current range fetcher
    all_frames,      \* frames collected by the assembler
    df_all,          \* the concatenated frame the assembler filters
    result,          \* the frame the assembler returns
    requests,        \* number of HTTP requests issued so far
    lastEvent,       \* "none", "request" or "delay": the latest of the two
    lastOutcome,     \* what the latest chunk request met
    lastLog,         \* levels logged by the latest step
    asked,           \* chunks requested by the current range fetcher
    delivered,       \* rows of the chunks of the current range that succeeded
    compared,        \* clock domains <<timestamp, boundary>> compared so far
    files,           \* files written
    norm_fn,         \* the normalizer under study, "none" in a run of a script
    norm_in,         \* what the normalizer is given
    norm_out         \* what it made of it, "pending" before it ran

cfg == <<prog, backend, api_key, ids, station_windows>>
ctl == <<pc, status, exc, si, cur>>
frames == <<all_dfs, all_frames>>
out == <<df_all, result>>
net == <<requests, lastEvent, lastOutcome>>
hist == <<asked, delivered>>
norm == <<norm_fn, norm_in, norm_out>>
run == <<cfg, ctl, frames, out, net, lastLog, hist, compared, files>>
vars == <<run, norm>>

EmptyFrame == Frame("naive", <<>>)

\* What one HTTP request can meet.
TransportFailures == {"neterror", "notfound", "httperror"}
Outcomes == TransportFailures \cup {"badbody", "empty", "data"}

\* The timestamp values of the rows of one response, as parsed with
\* errors="coerce": an instant, or NaT for a value that does not parse.
RawSeqs == UNION {[1 .. n -> TimeVals \cup {NaT}] : n \in 1 .. MaxRows}

\* Column names, spelled out: the code lower-cases them and looks for "time".
ObsTimeUtc == <<"o", "b", "s", "T", "i", "m", "e", "U", "t", "c">>
ObsTimeLocal == <<"o", "b", "s", "T", "i", "m", "e", "L", "o", "c", "a", "l">>
QcTime == <<"q", "c", "T", "I", "M", "E">>
Uptime == <<"u", "p", "t", "i", "m", "e">>
Epoch == <<"e", "p", "o", "c", "h">>
\* No column: None.
NoColumn == <<>>

\* The columns of the observations of a response: with obsTimeUtc, with
\* obsTimeLocal only, with another time-like column, with none.
PwsHeaders ==
    {<<Epoch, ObsTimeLocal, ObsTimeUtc>>, <<ObsTimeUtc>>,
     <<ObsTimeLocal, Epoch>>, <<ObsTimeLocal, QcTime>>,
     <<Epoch, QcTime>>, <<Uptime>>, <<Epoch>>, <<>>}

Range(seq) == {seq[i] : i \in 1 .. Len(seq)}

\* Per-station start dates of build_combined_pws_observations: staggered
\* starts, or a first station whose start lies after the end date.
Staggered == [s \in Stations |-> IF s = 1 THEN START_DATE ELSE END_DATE]
LateFirst == [s \in Stations |-> IF s = 1 THEN END_DATE + 1 ELSE END_DATE]
WindowConfigs == {Staggered, LateFirst}

AllIds == [i \in Stations |-> i]
\* BUOY_STATIONS does not list the stations in the order of their ids.
BUOY_STATIONS == [i \in Stations |-> NumStations + 1 - i]

MinOf(S) == CHOOSE x \in S : \A y \in S : x <= y
MinStart == IF prog = "build"
            THEN MinOf({station_windows[s] : s \in Stations})
            ELSE START_DATE

Init ==
    /\ prog \in Progs
    /\ backend \in (IF prog \in {"pwsall", "airport"} THEN {"pg", "registry"} ELSE {"none"})
    /\ api_key \in (IF prog \in {"build", "pwsall"} THEN BOOLEAN ELSE {TRUE})
    /\ ids \in (CASE prog \in {"pwsall", "airport"} -> {<<>>, AllIds}
                  [] prog = "buoy" -> {BUOY_STATIONS}
                  [] OTHER -> {AllIds})
    /\ station_windows \in (IF prog = "build" THEN WindowConfigs ELSE {Staggered})
    /\ pc = "start"
    /\ status = "running"
    /\ exc = "none"
    /\ si = 1
    /\ cur = 0
    /\ all_dfs = <<>>
    /\ all_frames = <<>>
    /\ df_all = EmptyFrame
    /\ result = EmptyFrame
    /\ requests = 0
    /\ lastEvent = "none"
    /\ lastOutcome = "none"
    /\ lastLog = <<>>
    /\ asked = <<>>
    /\ delivered = <<>>
    /\ compared = {}
    /\ files = {}
    /\ norm_fn = "none"
    /\ norm_in = <<>>
    /\ norm_out = "pending"

\* An uncaught exception ends the run.
Raise(e) ==
    /\ status' = "raised"
    /\ exc' = e
    /\ pc' = "done"

\* The assembler returns the frame f.
Return(f) ==
    /\ status' = "returned"
    /\ exc' = "none"
    /\ pc' = "done"
    /\ result' = f

\* A credential test that lets every run through.
ApiKeyNeverMissing == FALSE

\* if not api_key / if not API_KEY
ApiKeyMissing == ~api_key

\* The last lines of main: an empty table is not written.
MainSave(p) ==
    /\ prog = p /\ pc = "done" /\ status = "returned"
    /\ pc' = "exit"
    /\ IF result.rows = <<>>
       THEN lastLog' = <<"warning">> /\ files' = files
       ELSE lastLog' = <<>> /\ files' = files \cup {<<p, "data">>}
    /\ UNCHANGED <<cfg, norm, status, exc, si, cur, frames, out, net, hist, compared>>

\* -------------------------------------------------- the assemblers' tails
\* Clock domain and instants of the window boundaries of each final filter.
TailTz(p, dtype) ==
    CASE p = "build" -> IF dtype = "aware" THEN "aware" ELSE "naive"
      [] p = "pwsall" -> "naive"
      [] p = "airport" -> "aware"
      [] p = "buoy" -> "naive"

TailLo(p, minStart) == Midnight(minStart)

TailHi(p, dtype) ==
    CASE p = "build" -> IF dtype = "aware"
                        THEN Midnight(END_DATE + 1) - Microsecond
                        ELSE Midnight(END_DATE + 1)
      [] p = "pwsall" -> Midnight(END_DATE + 1) - Microsecond
      [] p = "airport" -> Midnight(END_DATE + 1) - Microsecond
      [] p = "buoy" -> Midnight(END_DATE)

FinalFilter(p, f, minStart) ==
    Frame(f.dtype, WindowFilter(f.rows, TailLo(p, minStart), TailHi(p, f.dtype)))

\* Window filter, drop_duplicates, sort_values, reset_index.
TailOf(p, f, minStart) ==
    Frame(f.dtype, SortValues(DropDuplicates(FinalFilter(p, f, minStart).rows)))

\* The last lines of an assembler on the concatenated frame f.
Assemble(f) ==
    /\ df_all' = f
    /\ compared' = compared \cup CmpDomains(f, TailTz(prog, f.dtype))
    /\ IF CmpRaises(f, TailTz(prog, f.dtype))
       THEN Raise("TypeError") /\ result' = result
       ELSE Return(TailOf(prog, f, MinStart))

\* ------------------------------------------- build_pws_observations.py (PWS)
\* The field fetch_pws_day takes the timestamp from.
\* c.lower()
Lower(ch) ==
    CASE ch = "T" -> "t" [] ch = "I" -> "i" [] ch = "M" -> "m" [] ch = "E" -> "e"
      [] ch = "U" -> "u" [] ch = "L" -> "l" [] OTHER -> ch
ToLower(name) == [i \in 1 .. Len(name) |-> Lower(name[i])]

\* "time" in c.lower()
ContainsTime(name) ==
    \E i \in 1 .. (Len(name) - 3) :
        SubSeq(ToLower(name), i, i + 3) = <<"t", "i", "m", "e">>

\* for c in df.columns: the first column with "time" in its name, or None.
RECURSIVE FirstTimeColumn(_)
FirstTimeColumn(columns) ==
    IF columns = <<>> THEN NoColumn
    ELSE IF ContainsTime(Head(columns)) THEN Head(columns)
    ELSE FirstTimeColumn(Tail(columns))

\* A fallback order that looks at obsTimeLocal first.
PwsTimeFieldLocalFirst(columns) ==
    IF ObsTimeLocal \in Range(columns) THEN ObsTimeLocal
    ELSE IF ObsTimeUtc \in Range(columns) THEN ObsTimeUtc
    ELSE FirstTimeColumn(columns)

PwsTimeField(columns) ==
    IF ObsTimeUtc \in Range(columns) THEN ObsTimeUtc
    ELSE IF ObsTimeLocal \in Range(columns) THEN ObsTimeLocal
    ELSE FirstTimeColumn(columns)

\* The frame fetch_pws_day makes of the observations of one response.
PwsFrame(sid, fields, vals, req) ==
    LET field == PwsTimeField(fields)
        tz == IF field = ObsTimeUtc THEN "aware" ELSE "naive"
        rows == [i \in 1 .. Len(vals) |->
                    Row(sid, IF field = NoColumn THEN NaT ELSE vals[i], tz, req)]
    IN Frame(tz, SortByTime(rows))

\* main: stop without the API key, else call the assembler.
BuildMain ==
    /\ prog = "build" /\ pc = "start"
    /\ IF ApiKeyMissing
       THEN Raise("SystemExit") /\ lastLog' = <<>>
       ELSE /\ pc' = "station"
            /\ lastLog' = <<>>
            /\ UNCHANGED <<status, exc>>
    /\ UNCHANGED <<cfg, norm, si, cur, frames, out, net, hist, compared, files>>

\* build_combined_pws_observations: the head of the loop over the stations.
BuildNextStation ==
    /\ prog = "build" /\ pc = "station" /\ si <= Len(ids)
    /\ IF station_windows[ids[si]] > END_DATE
       THEN /\ lastLog' = <<"warning">>
            /\ si' = si + 1
            /\ UNCHANGED <<pc, cur, all_dfs, hist>>
       ELSE /\ lastLog' = <<>>
            /\ pc' = "range"
            /\ cur' = station_windows[ids[si]]
            /\ all_dfs' = <<>>
            /\ asked' = <<>>
            /\ delivered' = <<>>
            /\ si' = si
    /\ UNCHANGED <<cfg, norm, status, exc, all_frames, out, net, compared, files>>

\* fetch_pws_range: one turn of the loop over the days: fetch_pws_day, then
\* the sleep, then the next day.
BuildFetchPwsDay ==
    /\ prog = "build" /\ pc = "range" /\ cur <= END_DATE
    /\ requests' = requests + 1
    /\ asked' = Append(asked, cur)
    /\ \E o \in Outcomes :
          /\ lastOutcome' = o
          /\ \/ /\ o \in TransportFailures
                /\ lastLog' = <<"error">>
                /\ lastEvent' = "delay"
                /\ cur' = cur + 1
                /\ UNCHANGED <<pc, status, exc, all_dfs, delivered>>
             \/ /\ o = "badbody"
                /\ Raise("JSONDecodeError")
                /\ lastLog' = <<>>
                /\ lastEvent' = "request"
                /\ UNCHANGED <<cur, all_dfs, delivered>>
             \/ /\ o = "empty"
                /\ lastLog' = <<"warning">>
                /\ lastEvent' = "delay"
                /\ cur' = cur + 1
                /\ UNCHANGED <<pc, status, exc, all_dfs, delivered>>
             \/ /\ o = "data"
                /\ \E fields \in PwsHeaders, vals \in RawSeqs :
                      LET f == PwsFrame(ids[si], fields, vals, requests + 1) IN
                      /\ lastLog' = IF PwsTimeField(fields) = NoColumn
                                    THEN <<"warning">> ELSE <<>>
                      /\ all_dfs' = Append(all_dfs, f)
                      /\ delivered' = delivered \o f.rows
                /\ lastEvent' = "delay"
                /\ cur' = cur + 1
                /\ UNCHANGED <<pc, status, exc>>
    /\ UNCHANGED <<cfg, norm, si, all_frames, out, compared, files>>

\* fetch_pws_range after the loop, and the assembler taking its frame.
BuildRangeReturn ==
    /\ prog = "build" /\ pc = "range" /\ cur > END_DATE
    /\ IF all_dfs = <<>>
       THEN lastLog' = <<"warning">> /\ all_frames' = all_frames
       ELSE lastLog' = <<>> /\ all_frames' = Append(all_frames, all_dfs)
    /\ pc' = "station"
    /\ si' = si + 1
    /\ UNCHANGED <<cfg, norm, status, exc, cur, all_dfs, out, net, hist, compared, files>>

\* The concatenation of the frames of the stations, each the concatenation
\* of the frames of its days.
ConcatStations(afs, ign) ==
    Concat([i \in 1 .. Len(afs) |-> Concat(afs[i], ign)], ign)
PwsConcat(ign) == ConcatStations(all_frames, ign)

\* build_combined_pws_observations after the loop over the stations.
BuildAssemble ==
    /\ prog = "build" /\ pc = "station" /\ si > Len(ids)
    /\ IF all_frames = <<>>
       THEN /\ lastLog' = <<"warning">>
            /\ Return(EmptyFrame)
            /\ UNCHANGED <<df_all, compared>>
       ELSE /\ lastLog' = <<>>
            /\ \E ign \in BOOLEAN : Assemble(PwsConcat(ign))
    /\ UNCHANGED <<cfg, norm, si, cur, frames, net, hist, files>>

\* main after build_combined_pws_observations returned.
BuildSave == MainSave("build")

\* --------------------------------------------------- fetch_pws_all_data.py
\* get_station_info as the fetchers call it, with (source type, station id):
\* the Postgres service takes the station id alone, so the call raises; the
\* static registry takes both.
LookupRaises == backend = "pg"

\* fetch_pws_data up to the loop over the stations.
PwsAllStart ==
    /\ prog = "pwsall" /\ pc = "start"
    /\ IF ApiKeyMissing
       THEN Raise("SystemExit") /\ lastLog' = <<>> /\ result' = result
       ELSE IF ids = <<>>
       THEN lastLog' = <<"warning">> /\ Return(EmptyFrame)
       ELSE /\ pc' = "station"
            /\ lastLog' = <<>>
            /\ UNCHANGED <<status, exc, result>>
    /\ UNCHANGED <<cfg, norm, si, cur, frames, df_all, net, hist, compared, files>>

\* fetch_pws_data: the head of the loop over the stations.
PwsAllNextStation ==
    /\ prog = "pwsall" /\ pc = "station" /\ si <= Len(ids)
    /\ pc' = "range"
    /\ cur' = START_DATE
    /\ all_dfs' = <<>>
    /\ asked' = <<>>
    /\ delivered' = <<>>
    /\ lastLog' = <<>>
    /\ UNCHANGED <<cfg, norm, status, exc, si, all_frames, out, net, compared, files>>

\* fetch_pws_range: one turn of the loop over the days.  Whatever
\* fetch_pws_day raises is caught and logged here.
PwsAllFetchPwsDay ==
    /\ prog = "pwsall" /\ pc = "range" /\ cur <= END_DATE
    /\ cur' = cur + 1
    /\ IF LookupRaises
       THEN /\ lastLog' = <<"error">>
            /\ UNCHANGED <<all_dfs, net, hist>>
       ELSE /\ requests' = requests + 1
            /\ lastEvent' = "request"
            /\ asked' = Append(asked, cur)
            /\ \E o \in Outcomes :
                  /\ lastOutcome' = o
                  /\ \/ /\ o \in TransportFailures \cup {"badbody"}
                        /\ lastLog' = <<"error">>
                        /\ UNCHANGED <<all_dfs, delivered>>
                     \/ /\ o = "empty"
                        /\ lastLog' = <<"warning">>
                        /\ UNCHANGED <<all_dfs, delivered>>
                     \/ /\ o = "data"
                        /\ \E fields \in PwsHeaders, vals \in RawSeqs :
                              LET f == PwsFrame(ids[si], fields, vals, requests + 1) IN
                              /\ lastLog' = IF PwsTimeField(fields) = NoColumn
                                            THEN <<"error">> ELSE <<>>
                              /\ all_dfs' = Append(all_dfs, f)
                              /\ delivered' = delivered \o f.rows
    /\ UNCHANGED <<cfg, norm, pc, status, exc, si, all_frames, out, compared, files>>

\* fetch_pws_range after the loop, and fetch_pws_data taking its frame.
PwsAllRangeReturn ==
    /\ prog = "pwsall" /\ pc = "range" /\ cur > END_DATE
    /\ IF all_dfs = <<>>
       THEN lastLog' = <<"warning">> /\ all_frames' = all_frames
       ELSE lastLog' = <<>> /\ all_frames' = Append(all_frames, all_dfs)
    /\ pc' = "station"
    /\ si' = si + 1
    /\ UNCHANGED <<cfg, norm, status, exc, cur, all_dfs, out, net, hist, compared, files>>

\* fetch_pws_data after the loop over the stations.
PwsAllAssemble ==
    /\ prog = "pwsall" /\ pc = "station" /\ si > Len(ids)
    /\ IF all_frames = <<>>
       THEN /\ lastLog' = <<"warning">>
            /\ Return(EmptyFrame)
            /\ UNCHANGED <<df_all, compared>>
       ELSE /\ lastLog' = <<>>
            /\ \E ign \in BOOLEAN : Assemble(PwsConcat(ign))
    /\ UNCHANGED <<cfg, norm, si, cur, frames, net, hist, files>>

\* main after fetch_pws_data returned.
PwsAllSave == MainSave("pwsall")

\* ---------------------------------------------- fetch_airport_mesonet_data.py
\* The window of the per-chunk filters of the airport and buoy fetchers.
ChunkLo == Midnight(START_DATE)
ChunkHi == Midnight(END_DATE + 1) - Microsecond

\* The frame fetch_asos_for_station makes of a parsed CSV, before its
\* filter.  hasValid: the CSV has a 'valid' column; pst: the value of its
\* 'station' column, 0 when it has none.
AsosFrame(sid, hasValid, pst, vals, req) ==
    LET tz == IF hasValid THEN "aware" ELSE "naive"
        rows == [i \in 1 .. Len(vals) |->
                    Row(IF pst # 0 THEN pst ELSE sid,
                        IF hasValid THEN vals[i] ELSE NaT, tz, req)]
    IN Frame(tz, rows)

\* fetch_airport_data up to the loop over the stations.
AirportStart ==
    /\ prog = "airport" /\ pc = "start"
    /\ IF ids = <<>>
       THEN lastLog' = <<"warning">> /\ Return(EmptyFrame)
       ELSE /\ pc' = "station"
            /\ lastLog' = <<>>
            /\ UNCHANGED <<status, exc, result>>
    /\ UNCHANGED <<cfg, norm, si, cur, frames, df_all, net, hist, compared, files>>

\* One turn of the loop of fetch_airport_data: fetch_asos_for_station.
FetchAsosForStation ==
    /\ prog = "airport" /\ pc = "station" /\ si <= Len(ids)
    /\ IF LookupRaises
       THEN /\ Raise("TypeError")
            /\ lastLog' = <<>>
            /\ UNCHANGED <<si, all_frames, net, compared>>
       ELSE /\ requests' = requests + 1
            /\ lastEvent' = "request"
            /\ \E o \in Outcomes :
                  /\ lastOutcome' = o
                  /\ \/ /\ o \in TransportFailures \cup {"badbody"}
                        /\ lastLog' = <<"error">>
                        /\ si' = si + 1
                        /\ UNCHANGED <<pc, status, exc, all_frames, compared>>
                     \/ /\ o = "empty"
                        /\ lastLog' = <<"warning">>
                        /\ si' = si + 1
                        /\ UNCHANGED <<pc, status, exc, all_frames, compared>>
                     \/ /\ o = "data"
                        /\ \E hasValid \in BOOLEAN, pst \in {0} \cup Stations,
                              vals \in RawSeqs :
                              LET f == AsosFrame(ids[si], hasValid, pst, vals, requests + 1)
                                  kept == Frame(f.dtype,
                                                WindowFilter(f.rows, ChunkLo, ChunkHi))
                              IN
                              /\ compared' = compared \cup CmpDomains(f, "aware")
                              /\ IF CmpRaises(f, "aware")
                                 THEN /\ Raise("TypeError")
                                      /\ lastLog' = <<"warning">>
                                      /\ UNCHANGED <<si, all_frames>>
                                 ELSE /\ lastLog' = IF kept.rows = <<>>
                                                    THEN <<"warning">> ELSE <<>>
                                      /\ all_frames' = IF kept.rows = <<>> THEN all_frames
                                                       ELSE Append(all_frames, kept)
                                      /\ si' = si + 1
                                      /\ UNCHANGED <<pc, status, exc>>
    /\ UNCHANGED <<cfg, norm, cur, all_dfs, out, hist, files>>

\* fetch_airport_data after the loop over the stations.
AirportAssemble ==
    /\ prog = "airport" /\ pc = "station" /\ si > Len(ids)
    /\ IF all_frames = <<>>
       THEN /\ lastLog' = <<"warning">>
            /\ Return(EmptyFrame)
            /\ UNCHANGED <<df_all, compared>>
       ELSE /\ lastLog' = <<>>
            /\ \E ign \in BOOLEAN : Assemble(Concat(all_frames, ign))
    /\ UNCHANGED <<cfg, norm, si, cur, frames, net, hist, files>>

\* main after fetch_airport_data returned.
AirportSave == MainSave("airport")

\* --------------------------------------------------------- fetch_buoy_data.py
\* hist_years = range(START_DATE.year, END_DATE.year); the realtime feed is
\* the chunk after the last historical year.
FirstYear == YearOf(START_DATE)
RealtimeAt == YearOf(END_DATE)

\* The frame fetch_ndbc_year / fetch_ndbc_realtime make of a parsed table,
\* before their filter.  hasTime: the five time columns are there.
NdbcFrame(sid, hasTime, vals, req) ==
    Frame("naive", [i \in 1 .. Len(vals) |->
                      Row(sid, IF hasTime THEN vals[i] ELSE NaT, "naive", req)])

\* fetch_buoy_data up to the loop over the stations.
BuoyStart ==
    /\ prog = "buoy" /\ pc = "start"
    /\ pc' = "station"
    /\ cur' = FirstYear
    /\ lastLog' = <<>>
    /\ UNCHANGED <<cfg, norm, status, exc, si, frames, out, net, hist, compared, files>>

\* What fetch_ndbc_year and fetch_ndbc_realtime do with a parsed table.
NdbcTable ==
    \E hasTime \in BOOLEAN, vals \in RawSeqs :
       LET f == NdbcFrame(ids[si], hasTime, vals, requests + 1)
           kept == Frame(f.dtype, WindowFilter(f.rows, ChunkLo, ChunkHi))
       IN /\ lastLog' = IF hasTime THEN <<>> ELSE <<"warning">>
          /\ compared' = compared \cup CmpDomains(f, "naive")
          /\ all_frames' = IF kept.rows = <<>> THEN all_frames
                           ELSE Append(all_frames, kept)
          /\ UNCHANGED <<pc, status, exc>>

\* One turn of the loop over the historical years: fetch_ndbc_year.
FetchNdbcYear ==
    /\ prog = "buoy" /\ pc = "station" /\ si <= Len(ids) /\ cur < RealtimeAt
    /\ requests' = requests + 1
    /\ lastEvent' = "request"
    /\ \E o \in Outcomes \cup {"badtable"} :
          /\ lastOutcome' = o
          /\ \/ /\ o = "notfound"
                /\ lastLog' = <<"warning">>
                /\ UNCHANGED <<pc, status, exc, all_frames, compared>>
             \/ /\ o \in {"httperror", "neterror", "badbody"}
                /\ lastLog' = <<"error">>
                /\ UNCHANGED <<pc, status, exc, all_frames, compared>>
             \/ /\ o = "empty"
                /\ lastLog' = <<"warning">>
                /\ UNCHANGED <<pc, status, exc, all_frames, compared>>
             \/ /\ o = "badtable"
                /\ Raise("ParserError")
                /\ lastLog' = <<>>
                /\ UNCHANGED <<all_frames, compared>>
             \/ /\ o = "data"
                /\ NdbcTable
          /\ cur' = IF o = "badtable" THEN cur ELSE cur + 1
    /\ UNCHANGED <<cfg, norm, si, all_dfs, out, hist, files>>

\* The realtime feed of the station, then the next station: fetch_ndbc_realtime.
FetchNdbcRealtime ==
    /\ prog = "buoy" /\ pc = "station" /\ si <= Len(ids) /\ cur = RealtimeAt
    /\ requests' = requests + 1
    /\ lastEvent' = "request"
    /\ \E o \in (Outcomes \ {"badbody"}) \cup {"badtable"} :
          /\ lastOutcome' = o
          /\ \/ /\ o = "notfound"
                /\ lastLog' = <<"warning">>
                /\ UNCHANGED <<pc, status, exc, all_frames, compared>>
             \/ /\ o \in {"httperror", "neterror"}
                /\ lastLog' = <<"error">>
                /\ UNCHANGED <<pc, status, exc, all_frames, compared>>
             \/ /\ o = "empty"
                /\ lastLog' = <<"warning">>
                /\ UNCHANGED <<pc, status, exc, all_frames, compared>>
             \/ /\ o = "badtable"
                /\ Raise("ParserError")
                /\ lastLog' = <<>>
                /\ UNCHANGED <<all_frames, compared>>
             \/ /\ o = "data"
                /\ NdbcTable
          /\ IF o = "badtable"
             THEN UNCHANGED <<si, cur>>
             ELSE si' = si + 1 /\ cur' = FirstYear
    /\ UNCHANGED <<cfg, norm, all_dfs, out, hist, files>>

\* fetch_buoy_data after the loop over the stations.
BuoyAssemble ==
    /\ prog = "buoy" /\ pc = "station" /\ si > Len(ids)
    /\ IF all_frames = <<>>
       THEN /\ lastLog' = <<"warning">>
            /\ Return(EmptyFrame)
            /\ UNCHANGED <<df_all, compared>>
       ELSE /\ lastLog' = <<>>
            /\ \E ign \in BOOLEAN : Assemble(Concat(all_frames, ign))
    /\ UNCHANGED <<cfg, norm, si, cur, frames, net, hist, files>>

\* main after fetch_buoy_data returned.
BuoySave == MainSave("buoy")

\* ------------------------- build_pws_observations.py, the NOAA airport part
\* fetch_station_range works on [0, NoaaEnd], counted in days.
NoaaEnd == NoaaSpanDays
ChunkEnd(c) == IF c + CHUNK_DAYS < NoaaEnd THEN c + CHUNK_DAYS ELSE NoaaEnd

\* The observation times a chunk request can return: its two boundary
\* instants, each shared with the neighbouring chunk.
ChunkTimes(c) == {c, ChunkEnd(c)}
ChunkSeqs(c) == UNION {[1 .. n -> ChunkTimes(c)] : n \in 1 .. MaxRows}

\* A removal of duplicated index values that keeps the last row of each.
DropDuplicatedIndexKeepLast(rows) ==
    LET keep(i) == \A j \in (i + 1) .. Len(rows) : rows[j].timestamp # rows[i].timestamp
        RECURSIVE pick(_)
        pick(i) == IF i > Len(rows) THEN <<>>
                   ELSE (IF keep(i) THEN <<rows[i]>> ELSE <<>>) \o pick(i + 1)
    IN pick(1)

\* df_full[~df_full.index.duplicated(keep="first")]
DropDuplicatedIndex(rows) ==
    LET keep(i) == \A j \in 1 .. (i - 1) : rows[j].timestamp # rows[i].timestamp
        RECURSIVE pick(_)
        pick(i) == IF i > Len(rows) THEN <<>>
                   ELSE (IF keep(i) THEN <<rows[i]>> ELSE <<>>) \o pick(i + 1)
    IN pick(1)

\* What fetch_station_range returns for the collected frames.
StationRangeResult(dfs) ==
    SortByTime(DropDuplicatedIndex(Flatten([i \in 1 .. Len(dfs) |-> dfs[i].rows])))

\* The script body: the date range, then the loop over the stations.
NoaaStart ==
    /\ prog = "noaa" /\ pc = "start"
    /\ pc' = "station"
    /\ lastLog' = <<"print">>
    /\ UNCHANGED <<cfg, norm, status, exc, si, cur, frames, out, net, hist, compared, files>>

\* save_station_csv entering fetch_station_range, or the end of the script.
NoaaNextStation ==
    /\ prog = "noaa" /\ pc = "station"
    /\ IF si <= Len(ids)
       THEN /\ pc' = "range"
            /\ cur' = 0
            /\ all_dfs' = <<>>
            /\ asked' = <<>>
            /\ delivered' = <<>>
            /\ lastLog' = <<"print">>
            /\ UNCHANGED <<status, exc, result>>
       ELSE /\ Return(result)
            /\ lastLog' = <<>>
            /\ UNCHANGED <<cur, all_dfs, hist>>
    /\ UNCHANGED <<cfg, norm, si, all_frames, df_all, net, compared, files>>

\* fetch_station_range: one turn of the loop over the chunks:
\* fetch_station_chunk, then the pause.
FetchStationChunk ==
    /\ prog = "noaa" /\ pc = "range" /\ cur < NoaaEnd
    /\ requests' = requests + 1
    /\ asked' = Append(asked, <<cur, ChunkEnd(cur)>>)
    /\ \E o \in Outcomes :
          /\ lastOutcome' = o
          /\ \/ /\ o = "neterror"
                /\ Raise("RequestException")
                /\ lastLog' = <<"print">>
                /\ lastEvent' = "request"
                /\ UNCHANGED <<cur, all_dfs, delivered>>
             \/ /\ o = "badbody"
                /\ Raise("JSONDecodeError")
                /\ lastLog' = <<"print">>
                /\ lastEvent' = "request"
                /\ UNCHANGED <<cur, all_dfs, delivered>>
             \/ /\ o \in {"notfound", "httperror", "empty"}
                /\ lastLog' = <<"print", "print">>
                /\ lastEvent' = "delay"
                /\ cur' = ChunkEnd(cur)
                /\ UNCHANGED <<pc, status, exc, all_dfs, delivered>>
             \/ /\ o = "data"
                /\ \E hasTimestamp \in BOOLEAN, vals \in ChunkSeqs(cur) :
                      LET rows == [i \in 1 .. Len(vals) |->
                                      Row(ids[si], vals[i], "aware", requests + 1)]
                          f == Frame("aware", SortByTime(rows))
                      IN
                      /\ lastLog' = IF hasTimestamp THEN <<"print">>
                                    ELSE <<"print", "print">>
                      /\ all_dfs' = IF hasTimestamp THEN Append(all_dfs, f) ELSE all_dfs
                      /\ delivered' = IF hasTimestamp THEN delivered \o f.rows
                                      ELSE delivered
                /\ lastEvent' = "delay"
                /\ cur' = ChunkEnd(cur)
                /\ UNCHANGED <<pc, status, exc>>
    /\ UNCHANGED <<cfg, norm, si, all_frames, out, compared, files>>

\* fetch_station_range after the loop, and the rest of save_station_csv.
SaveStationCsv ==
    /\ prog = "noaa" /\ pc = "range" /\ cur >= NoaaEnd
    /\ IF all_dfs = <<>>
       THEN /\ files' = files \cup {<<ids[si], "EMPTY">>}
            /\ result' = EmptyFrame
       ELSE /\ files' = files \cup {<<ids[si], "data">>}
            /\ result' = Frame("aware", StationRangeResult(all_dfs))
    /\ lastLog' = <<"print", "print">>
    /\ pc' = "station"
    /\ si' = si + 1
    /\ UNCHANGED <<cfg, norm, status, exc, cur, frames, df_all, net, hist, compared>>

\* ------------------------------------------------------ the normalizers
\* The normalizers of the rows, each applied to one input of its own.
Min(a, b) == IF a <= b THEN a ELSE b

\* --- fetch_ndbc_realtime: the names of the header line.
\* A name is its text followed by the numbers of the suffixes _k added to
\* it: <<"WDIR", 1>> is WDIR_1.
HeaderNames == {<<"WDIR">>, <<"WSPD">>, <<"WDIR", 1>>}
RawHeaders == UNION {[1 .. n -> HeaderNames] : n \in 1 .. MaxHeader}

\* f"{name}_{k}"
Suffixed(name, k) == Append(name, k)

\* The loop over raw_col_names with the dictionary seen.
RECURSIVE DedupeFrom(_, _, _)
DedupeFrom(raw, seen, col_names) ==
    IF raw = <<>> THEN col_names
    ELSE LET name == Head(raw) IN
         IF name \in DOMAIN seen
         THEN DedupeFrom(Tail(raw), [seen EXCEPT ![name] = @ + 1],
                         Append(col_names, Suffixed(name, seen[name] + 1)))
         ELSE DedupeFrom(Tail(raw), (name :> 0) @@ seen, Append(col_names, name))

\* A deduplication that gives every repeated name the suffix _1.
DedupeColumnNamesAlwaysOne(raw_col_names) ==
    [i \in 1 .. Len(raw_col_names) |->
        IF \E j \in 1 .. (i - 1) : raw_col_names[j] = raw_col_names[i]
        THEN Suffixed(raw_col_names[i], 1) ELSE raw_col_names[i]]

DedupeColumnNames(raw_col_names) ==
    DedupeFrom(raw_col_names, [x \in {} |-> 0], <<>>)

\* --- fetch_ndbc_year, fetch_ndbc_realtime: the year of the timestamp.
\* Values of the YY column: two digits, four digits.
YearValues == {0, 24, 99, 1999, 2024}

\* pd.to_datetime(errors="coerce") of year / month / day / hour / minute
\* columns, as the year of the timestamp: NaT when the fields are no date
\* (ok false) or the year is outside what a Timestamp holds.
ToDatetimeYear(year, ok) == IF ok /\ year \in 1678 .. 2261 THEN year ELSE NaT

\* fetch_ndbc_year: "whatever is in YY" is the year.
NdbcYearTimestamp(YY, ok) == ToDatetimeYear(YY, ok)
\* fetch_ndbc_realtime: df["YYYY"] = 2000 + df["YY"].astype(int)
NdbcRealtimeTimestamp(YY, ok) == ToDatetimeYear(2000 + YY, ok)

\* --- fetch_ndbc_year: the columns of the parsed table.
canonical_cols ==
    <<"YY", "MM", "DD", "hh", "mm", "WDIR", "WSPD", "GST", "WVHT", "DPD",
      "APD", "MWD", "PRES", "ATMP", "WTMP", "DEWP", "VIS", "TIDE">>
time_cols == {"YY", "MM", "DD", "hh", "mm"}

\* An alignment that takes the length of the canonical list for n.
ColumnCountCanonical(k) == Len(canonical_cols)

\* n = min(df.shape[1], len(canonical_cols))
ColumnCount(k) == Min(k, Len(canonical_cols))

\* df = df.iloc[:, :n]; df.columns = canonical_cols[:n], for a table of k
\* columns: setting the columns raises when the lengths differ.
AlignColumns(k) ==
    LET n == ColumnCount(k)
        width == Min(k, n)
        names == SubSeq(canonical_cols, 1, Min(n, Len(canonical_cols)))
    IN [columns |-> names, raised |-> Len(names) # width]

\* fetch_ndbc_year from the parsed table on: k columns, rows whose time
\* columns give vals.
NdbcYearTable(sid, k, vals) ==
    LET a == AlignColumns(k)
        hasTime == time_cols \subseteq Range(a.columns)
        f == NdbcFrame(sid, hasTime, vals, 1)
    IN IF a.raised
       THEN [raised |-> TRUE, columns |-> <<>>, timestamps |-> <<>>, rows |-> <<>>]
       ELSE [raised |-> FALSE,
             columns |-> a.columns,
             timestamps |-> [i \in 1 .. Len(f.rows) |-> f.rows[i].timestamp],
             rows |-> WindowFilter(f.rows, ChunkLo, ChunkHi)]

\* --- fetch_pws_day: the timestamp of an observation.
PwsColumnNames == {ObsTimeUtc, ObsTimeLocal, QcTime, Uptime, Epoch}
\* The columns of a response, no name twice.
PwsColumnSeqs ==
    {c \in UNION {[1 .. n -> PwsColumnNames] : n \in 0 .. MaxPwsCols} :
        \A i, j \in 1 .. Len(c) : c[i] = c[j] => i = j}

\* The timestamp fetch_pws_day gives an observation.  The cell of column i
\* holds the instant i when parses[i], and text that is no date otherwise.
PwsTimestamp(columns, parses) ==
    LET field == PwsTimeField(columns) IN
    IF field = NoColumn
    THEN [field |-> NoColumn, timestamp |-> NaT, tz |-> "naive"]
    ELSE LET pos == CHOOSE i \in 1 .. Len(columns) : columns[i] = field IN
         [field |-> field,
          timestamp |-> IF parses[pos] THEN pos ELSE NaT,
          tz |-> IF field = ObsTimeUtc THEN "aware" ELSE "naive"]

\* --- the Station Directory: get_station_info and the display name.
Backends == {"registry", "pg"}
SourceTypes == {"airport", "pws"}
None == [kind |-> "none", of |-> 0]
\* The values a station record holds: the station's id and its name.
IdValue(station_id) == [kind |-> "id", of |-> station_id]
NameValue(station_id) == [kind |-> "name", of |-> station_id]

\* The parameters of get_station_info in each module.
RegistryParams == <<"source_type", "station_id">>
PgParams == <<"station_id">>
LookupParams(b) == IF b = "pg" THEN PgParams ELSE RegistryParams

\* The record of a station in STATION_REGISTRY and in the stations table.
RegistryRecord(station_id) ==
    [station_id |-> IdValue(station_id), name |-> NameValue(station_id)]
PgRecord(station_id) ==
    [station_id |-> IdValue(station_id), station_name |-> NameValue(station_id)]

\* get_station_info of module b called with the positional arguments args;
\* known tells whether the directory has the station.
GetStationInfo(b, args, known) ==
    IF Len(args) # Len(LookupParams(b))
    THEN [raised |-> "TypeError", info |-> None]
    ELSE [raised |-> "none",
          info |-> IF ~known THEN None
                   ELSE IF b = "pg" THEN PgRecord(args[Len(args)])
                   ELSE RegistryRecord(args[Len(args)])]

\* dict.get
Get(info, key) == IF key \in DOMAIN info THEN info[key] ELSE None

\* get_airport_name and get_pws_name over module b.
StationName(b, source_type, station_id, known) ==
    LET r == GetStationInfo(b, <<source_type, station_id>>, known) IN
    IF r.raised # "none" THEN [raised |-> r.raised, name |-> None]
    ELSE IF r.info = None THEN [raised |-> "none", name |-> IdValue(station_id)]
    ELSE [raised |-> "none",
          name |-> IF Get(r.info, "name") # None THEN Get(r.info, "name")
                   ELSE IdValue(station_id)]

\* --- the columns of the written CSV.
ProviderFields == {"stationID", "obsTimeUtc", "humidity"}
\* The fields of a response in the order the provider sends them.
FieldSeqs ==
    {c \in UNION {[1 .. n -> ProviderFields] : n \in 0 .. MaxPwsCols} :
        \A i, j \in 1 .. Len(c) : c[i] = c[j] => i = j}
CsvScripts == {"build", "pwsall", "airport"}

\* df[name] = ...: a new column goes last, an existing one keeps its place.
SetColumn(columns, name) ==
    IF \E i \in 1 .. Len(columns) : columns[i] = name
    THEN columns ELSE Append(columns, name)

\* The columns of the frame a fetcher of the script returns for a response.
FrameColumns(script, fields) ==
    LET keyed == SetColumn(SetColumn(fields, "timestamp"), "station_id") IN
    IF script = "build" THEN keyed ELSE SetColumn(keyed, "station_name")

\* pd.concat: the columns of the first frame, then the new ones of the next.
ConcatColumns(a, b) ==
    a \o SelectSeq(b, LAMBDA c : ~\E i \in 1 .. Len(a) : a[i] = c)

\* The header line of the CSV written from two fetched frames.
CsvHeader(script, first, second) ==
    ConcatColumns(FrameColumns(script, first), FrameColumns(script, second))

\* --- fetch_station_range: the chunks of a range.
\* A chunk end that is not cut at the end of the range.
ChunkEndUncut(current, end) == current + CHUNK_DAYS
\* chunk_end = min(current + timedelta(days=CHUNK_DAYS), end)
ChunkEndOf(current, end) == Min(current + CHUNK_DAYS, end)

\* The while loop: the ranges handed to fetch_station_chunk, in order.
RECURSIVE ChunkLoop(_, _, _)
ChunkLoop(current, end, chunks) ==
    IF current < end
    THEN ChunkLoop(ChunkEndOf(current, end), end,
                   Append(chunks, <<current, ChunkEndOf(current, end)>>))
    ELSE chunks

\* fetch_station_range(station_id, start, end) when every chunk request
\* answers with observations (data) or none does: the ranges requested, the
\* chunks collected in all_dfs, and whether the empty frame is returned.
FetchStationRange(start, end, data) ==
    LET chunks == ChunkLoop(start, end, <<>>)
        collected == IF data THEN chunks ELSE <<>>
    IN [chunks |-> chunks, all_dfs |-> collected, empty |-> collected = <<>>]

Next ==
    \/ BuildMain
    \/ BuildNextStation
    \/ BuildFetchPwsDay
    \/ BuildRangeReturn
    \/ BuildAssemble
    \/ BuildSave
    \/ PwsAllStart
    \/ PwsAllNextStation
    \/ PwsAllFetchPwsDay
    \/ PwsAllRangeReturn
    \/ PwsAllAssemble
    \/ PwsAllSave
    \/ AirportStart
    \/ FetchAsosForStation
    \/ AirportAssemble
    \/ AirportSave
    \/ BuoyStart
    \/ FetchNdbcYear
    \/ FetchNdbcRealtime
    \/ BuoyAssemble
    \/ BuoySave
    \/ NoaaStart
    \/ NoaaNextStation
    \/ FetchStationChunk
    \/ SaveStationCsv

Spec == Init /\ [][Next]_vars

\* ------------------------------------- the normalizers, one input at a time
NormFns == {"header", "year", "realtime_year", "align", "pws", "lookup", "csv", "chunks"}

\* What each normalizer can be given.
NormInputs(fn) ==
    CASE fn = "header" -> [raw_col_names : RawHeaders]
      [] fn \in {"year", "realtime_year"} -> [YY : YearValues, ok : BOOLEAN]
      [] fn = "align" -> [k : 1 .. MaxTableCols, vals : RawSeqs]
      [] fn = "pws" ->
            UNION {[columns : {c}, parses : [1 .. Len(c) -> BOOLEAN]] :
                      c \in PwsColumnSeqs}
      [] fn = "lookup" ->
            [b : Backends, source_type : SourceTypes,
             station_id : Stations, known : BOOLEAN]
      [] fn = "csv" ->
            [script : CsvScripts, first : FieldSeqs, second : FieldSeqs]
      [] fn = "chunks" ->
            [start : 0 .. NoaaSpanDays, end : 0 .. NoaaSpanDays, data : BOOLEAN]

\* A normalizer, its input, and nothing else going on.
NormInit ==
    /\ norm_fn \in NormFns
    /\ norm_in \in NormInputs(norm_fn)
    /\ norm_out = <<>>
    /\ prog = (IF norm_fn = "pws" THEN "build" ELSE "buoy")
    /\ backend = "none"
    /\ api_key = TRUE
    /\ ids = AllIds
    /\ station_windows = Staggered
    /\ pc = "normalize"
    /\ status = "running"
    /\ exc = "none"
    /\ si = 1
    /\ cur = 0
    /\ all_dfs = <<>>
    /\ all_frames = <<>>
    /\ df_all = EmptyFrame
    /\ result = EmptyFrame
    /\ requests = 0
    /\ lastEvent = "none"
    /\ lastOutcome = "none"
    /\ lastLog = <<>>
    /\ asked = <<>>
    /\ delivered = <<>>
    /\ compared = {}
    /\ files = {}

\* The normalizer fn has not run yet.
Pending(fn) == norm_fn = fn /\ norm_out = <<>>

\* fetch_ndbc_realtime, the deduplication of the header names.
DedupeHeader ==
    /\ Pending("header")
    /\ norm_out' = <<DedupeColumnNames(norm_in.raw_col_names)>>
    /\ UNCHANGED <<run, norm_fn, norm_in>>

\* fetch_ndbc_year, the timestamp from the time columns.
YearTimestamp ==
    /\ Pending("year")
    /\ norm_out' = <<NdbcYearTimestamp(norm_in.YY, norm_in.ok)>>
    /\ UNCHANGED <<run, norm_fn, norm_in>>

\* fetch_ndbc_realtime, the timestamp from the time columns.
RealtimeTimestamp ==
    /\ Pending("realtime_year")
    /\ norm_out' = <<NdbcRealtimeTimestamp(norm_in.YY, norm_in.ok)>>
    /\ UNCHANGED <<run, norm_fn, norm_in>>

\* fetch_ndbc_year, from the parsed table to the filtered frame.
AlignTable ==
    /\ Pending("align")
    /\ norm_out' = <<NdbcYearTable(ids[si], norm_in.k, norm_in.vals)>>
    /\ UNCHANGED <<run, norm_fn, norm_in>>

\* fetch_pws_day, the timestamp column.
StandardizeTimestamp ==
    /\ Pending("pws")
    /\ norm_out' = <<PwsTimestamp(norm_in.columns, norm_in.parses)>>
    /\ UNCHANGED <<run, norm_fn, norm_in>>

\* get_airport_name / get_pws_name, the display name of a station.
LookupName ==
    /\ Pending("lookup")
    /\ norm_out' = <<StationName(norm_in.b, norm_in.source_type,
                                 norm_in.station_id, norm_in.known)>>
    /\ UNCHANGED <<run, norm_fn, norm_in>>

\* main, the header of the file written by to_csv.
WriteCsvHeader ==
    /\ Pending("csv")
    /\ norm_out' = <<CsvHeader(norm_in.script, norm_in.first, norm_in.second)>>
    /\ UNCHANGED <<run, norm_fn, norm_in>>

\* fetch_station_range over a range of its own.
PlanChunks ==
    /\ Pending("chunks")
    /\ norm_out' = <<FetchStationRange(norm_in.start, norm_in.end, norm_in.data)>>
    /\ UNCHANGED <<run, norm_fn, norm_in>>

NormNext ==
    \/ DedupeHeader
    \/ YearTimestamp
    \/ RealtimeTimestamp
    \/ AlignTable
    \/ StandardizeTimestamp
    \/ LookupName
    \/ WriteCsvHeader
    \/ PlanChunks

NormSpec == NormInit /\ [][NormNext]_vars

\* ------------------------------------------------------------- properties
Assemblers == {"build", "pwsall", "airport", "buoy"}
Returned == status = "returned" /\ prog \in Assemblers
\* The assembler got as far as its window filter.
TailRan == df_all.rows # <<>>
Filtered == FinalFilter(prog, df_all, MinStart).rows
\* The calendar date of an instant.
DateOf(t) == t \div DayLen

\* C1: in the table an assembler returns, no two rows have the same
\* (station_id, timestamp).
C1_UniqueKeys ==
    Returned =>
        \A i, j \in 1 .. Len(result.rows) :
            (/\ result.rows[i].station_id = result.rows[j].station_id
             /\ result.rows[i].timestamp = result.rows[j].timestamp) => i = j

\* A returned table whose filtered input held the same key twice.
C1_Witness ==
    /\ Returned /\ TailRan
    /\ \E i, j \in 1 .. Len(Filtered) : i < j /\ SameKey(Filtered[i], Filtered[j])

\* C2: every row of a returned table has start_date <= date(timestamp) <=
\* end_date.
C2_WindowDates ==
    Returned =>
        \A i \in 1 .. Len(result.rows) :
            /\ MinStart <= DateOf(result.rows[i].timestamp)
            /\ DateOf(result.rows[i].timestamp) <= END_DATE

\* C3: a row inside [start_date 00:00, end_date + 1 day) that passed the
\* per-chunk filter of the buoy / airport fetchers is still there after the
\* final filter.
C3_FinalFilterKeepsWindow ==
    (Returned /\ TailRan /\ prog \in {"buoy", "airport"}) =>
        \A i \in 1 .. Len(df_all.rows) :
            (/\ df_all.rows[i].timestamp # NaT
             /\ df_all.rows[i].timestamp >= Midnight(START_DATE)
             /\ df_all.rows[i].timestamp < Midnight(END_DATE + 1))
            => \E k \in 1 .. Len(Filtered) : Filtered[k] = df_all.rows[i]

\* C4: every window-boundary comparison compares a timestamp and a boundary
\* of the same clock domain.
C4_SameClockDomain == \A p \in compared : p[1] = p[2]

\* C5: the table an assembler returns is non-decreasing in
\* (station_id, timestamp).
C5_Sorted ==
    Returned =>
        \A i \in 1 .. (Len(result.rows) - 1) :
            \/ result.rows[i].station_id < result.rows[i + 1].station_id
            \/ /\ result.rows[i].station_id = result.rows[i + 1].station_id
               /\ result.rows[i].timestamp <= result.rows[i + 1].timestamp

\* A returned table of two stations whose rows arrived in another order.
C5_Witness ==
    /\ Returned /\ TailRan
    /\ \E i, j \in 1 .. Len(result.rows) :
          result.rows[i].station_id # result.rows[j].station_id
    /\ result.rows # DropDuplicates(Filtered)

\* C6: the window filter + deduplicate + sort of an assembler, applied to
\* the table it returned, raises nothing and gives that table again.
C6_TailIdempotent ==
    (Returned /\ TailRan) =>
        /\ ~CmpRaises(result, TailTz(prog, result.dtype))
        /\ TailOf(prog, result, MinStart) = result

\* A returned table, not empty, that the tail made by removing and moving rows.
C6_Witness ==
    /\ Returned /\ TailRan
    /\ Len(result.rows) >= 2
    /\ Len(result.rows) < Len(df_all.rows)
    /\ result.rows # DropDuplicates(Filtered)

RangeFetchers == {"build", "pwsall", "noaa"}
RangeLoopDone ==
    /\ pc = "range"
    /\ IF prog = "noaa" THEN cur >= NoaaEnd ELSE cur > END_DATE
RangeChunks ==
    IF prog = "noaa"
    THEN [k \in 1 .. ((NoaaEnd + CHUNK_DAYS - 1) \div CHUNK_DAYS) |->
            <<(k - 1) * CHUNK_DAYS, ChunkEnd((k - 1) * CHUNK_DAYS)>>]
    ELSE LET first == IF prog = "build" THEN station_windows[ids[si]] ELSE START_DATE
         IN [k \in 1 .. (END_DATE - first + 1) |-> first + k - 1]
RangeRows ==
    IF prog = "noaa" THEN StationRangeResult(all_dfs)
    ELSE Flatten([i \in 1 .. Len(all_dfs) |-> all_dfs[i].rows])
KeysOf(rows) == {<<rows[i].station_id, rows[i].timestamp>> : i \in 1 .. Len(rows)}

\* C7: in a range fetcher a transport failure of one chunk raises nothing out
\* of the range fetcher, the other chunks are still requested, and the rows
\* returned are those of the chunks that succeeded.
C7_ChunkFailureIsolated ==
    prog \in RangeFetchers =>
        /\ ~(status = "raised" /\ exc = "RequestException")
        /\ RangeLoopDone =>
              /\ asked = RangeChunks
              /\ KeysOf(RangeRows) = KeysOf(delivered)

\* C8: a chunk whose body cannot be parsed raises nothing: the run goes on.
C8_ParseFailureContained ==
    ~(status = "raised" /\ exc \in {"JSONDecodeError", "ParserError"})

\* C9: a chunk request that meets 404 logs a warning, one that meets another
\* transport failure logs an error, and both leave the collected frames as
\* they were.
C9_NotFoundIsWarning ==
    [][requests' = requests + 1 =>
          /\ lastOutcome' = "notfound" => lastLog' = <<"warning">>
          /\ lastOutcome' \in {"httperror", "neterror"} => lastLog' = <<"error">>
          /\ lastOutcome' \in TransportFailures =>
                (status' = "running" /\ all_dfs' = all_dfs /\ all_frames' = all_frames)
      ]_vars

\* C10: a delay lies between any two successive requests of a run.
C10_DelayBetweenRequests ==
    [][requests' = requests + 1 => lastEvent \in {"none", "delay"}]_vars

\* C11: without WEATHER_API_KEY the run of a PWS script ends in SystemExit
\* and issues no HTTP request at any point.
C11_NoRequestWithoutKey ==
    (prog \in {"build", "pwsall"} /\ ~api_key) =>
        /\ requests = 0
        /\ pc # "start" => (status = "raised" /\ exc = "SystemExit")

\* A run without the key that has stopped.
C11_Witness ==
    /\ prog \in {"build", "pwsall"} /\ ~api_key
    /\ pc = "done" /\ status = "raised" /\ exc = "SystemExit"

\* C12: when the Station Directory gives no station ids, the run ends in an
\* error, not a return, with no request issued and no file written.
C12_EmptyDirectoryFatal ==
    (prog \in {"pwsall", "airport"} /\ ids = <<>> /\ pc # "start") =>
        /\ status = "raised"
        /\ requests = 0
        /\ files = {}

\* The step of a sink: the last lines of a main, or of save_station_csv.
SinkStep ==
    \/ pc = "done" /\ pc' = "exit"
    \/ prog = "noaa" /\ pc = "range" /\ pc' = "station"
\* What the sink is given is empty.
SinkEmpty == IF prog = "noaa" THEN all_dfs = <<>> ELSE result.rows = <<>>
\* A warning among the messages of a step, logged or printed.
Warned(log) == \E i \in 1 .. Len(log) : log[i] \in {"warning", "print"}

\* C13: a sink given an empty result writes no file, warns, and the run
\* goes on.
C13_EmptyResultNotWritten ==
    [][(SinkStep /\ SinkEmpty) =>
          /\ files' = files
          /\ Warned(lastLog')
          /\ status' # "raised"
      ]_vars

\* The station a range fetcher collected the frames fs for.
StationOf(fs) == fs[1].rows[1].station_id
FramesWithout(x) == SelectSeq(all_frames, LAMBDA fs : StationOf(fs) # x)
\* No row collected for station x can pass the window filter.
ContributesNothing(x) ==
    \A k \in 1 .. Len(all_frames) : \A d \in 1 .. Len(all_frames[k]) :
        \A i \in 1 .. Len(all_frames[k][d].rows) :
            LET r == all_frames[k][d].rows[i] IN
            r.station_id = x =>
                ~InWindow(r, Midnight(MinStart), Midnight(END_DATE + 1))
\* What the assembler of a PWS script makes of the stations' frames afs.
AssembleOutcome(afs, ign) ==
    IF afs = <<>> THEN <<"returned", <<>>>>
    ELSE LET f == ConcatStations(afs, ign) IN
         IF CmpRaises(f, TailTz(prog, f.dtype)) THEN <<"raised", <<>>>>
         ELSE <<"returned", TailOf(prog, f, MinStart).rows>>

\* C14: a station that fails or contributes no row neither aborts the run
\* nor changes the rows of the other stations: a failing Station Directory
\* lookup of fetch_asos_for_station does not end the run, and the assembler
\* of a PWS script ends as it would without that station.
C14_StationIsolated ==
    /\ ~(prog = "airport" /\ LookupRaises /\ status = "raised")
    /\ (prog \in {"build", "pwsall"} /\ pc \in {"done", "exit"} /\ si > Len(ids)) =>
           \A x \in Stations : ContributesNothing(x) =>
               \A ign \in BOOLEAN :
                   AssembleOutcome(all_frames, ign) = AssembleOutcome(FramesWithout(x), ign)

\* C15: every row of station s in the table build_combined_pws_observations
\* returns has its timestamp inside the window of s, from the start date of
\* s to the end date.
C15_PerStationWindow ==
    (Returned /\ prog = "build") =>
        \A i \in 1 .. Len(result.rows) :
            LET r == result.rows[i] IN
            /\ Midnight(station_windows[r.station_id]) <= r.timestamp
            /\ DateOf(r.timestamp) <= END_DATE

\* C16: of the rows with one (station_id, timestamp) the returned table
\* keeps the one fetched first: the historical archive before the realtime
\* feed in fetch_buoy_data, the earlier request within a station of the PWS
\* fetchers.
C16_FirstOccurrenceKept ==
    (Returned /\ TailRan /\ prog \in {"buoy", "build", "pwsall"}) =>
        \A i \in 1 .. Len(result.rows) : \A k \in 1 .. Len(Filtered) :
            SameKey(result.rows[i], Filtered[k]) =>
                result.rows[i].req <= Filtered[k].req

\* A buoy table with a row that the archive of a year (the first request of
\* the station) and the realtime feed had both delivered.
C16_Witness ==
    /\ Returned /\ TailRan /\ prog = "buoy" /\ FirstYear < RealtimeAt
    /\ \E i \in 1 .. Len(result.rows) : \E k \in 1 .. Len(Filtered) :
          /\ SameKey(result.rows[i], Filtered[k])
          /\ result.rows[i].req < Filtered[k].req

\* The normalizer fn has run.
Ran(fn) == norm_fn = fn /\ norm_out # <<>>
\* How many times the name at position i stands before it in the header.
Earlier(names, i) == Cardinality({j \in 1 .. (i - 1) : names[j] = names[i]})

\* C17: the header deduplication keeps the first occurrence of a name and
\* turns its k-th later occurrence into name_k, at the same position.
C17_HeaderDedupe ==
    Ran("header") =>
        LET raw == norm_in.raw_col_names
            col_names == norm_out[1]
        IN /\ Len(col_names) = Len(raw)
           /\ \A i \in 1 .. Len(raw) :
                 col_names[i] = IF Earlier(raw, i) = 0 THEN raw[i]
                                ELSE Suffixed(raw[i], Earlier(raw, i))

\* [WDIR, WSPD, WDIR, WDIR] has become [WDIR, WSPD, WDIR_1, WDIR_2].
C17_Witness ==
    /\ Ran("header")
    /\ norm_in.raw_col_names = <<<<"WDIR">>, <<"WSPD">>, <<"WDIR">>, <<"WDIR">>>>
    /\ norm_out[1] = <<<<"WDIR">>, <<"WSPD">>, <<"WDIR", 1>>, <<"WDIR", 2>>>>

\* C18: where the time columns form a date, a two-digit year v gives a
\* timestamp in year 2000 + v and a four-digit year gives a timestamp in
\* that year, in fetch_ndbc_year and in fetch_ndbc_realtime.
C18_YearNormalized ==
    ((Ran("year") \/ Ran("realtime_year")) /\ norm_in.ok) =>
        /\ norm_in.YY \in 0 .. 99 => norm_out[1] = 2000 + norm_in.YY
        /\ norm_in.YY \in 1000 .. 9999 => norm_out[1] = norm_in.YY

\* C19: fetch_ndbc_year gives a table of k columns the first min(k, 18)
\* canonical names, raises for no k, and a table without the five time
\* columns gets null timestamps and contributes no row.
C19_TruncatedToCanonical ==
    Ran("align") =>
        LET k == norm_in.k
            t == norm_out[1]
        IN /\ ~t.raised
           /\ Len(t.columns) = (IF k <= 18 THEN k ELSE 18)
           /\ \A i \in 1 .. Len(t.columns) : t.columns[i] = canonical_cols[i]
           /\ k < 5 => /\ \A i \in 1 .. Len(t.timestamps) : t.timestamps[i] = NaT
                        /\ t.rows = <<>>

\* A table wider than the canonical list, cut to it, with a row kept; and
\* one too narrow for the time columns.
C19_Witness ==
    /\ Ran("align")
    /\ norm_in.k > Len(canonical_cols)
    /\ Len(norm_out[1].columns) = Len(canonical_cols)
    /\ norm_out[1].rows # <<>>

\* The column the fallback order of the spec names, by position.
ExpectedPos(columns) ==
    LET at(name) == {i \in 1 .. Len(columns) : columns[i] = name}
        timeLike == {i \in 1 .. Len(columns) : ContainsTime(columns[i])}
    IN IF at(ObsTimeUtc) # {} THEN at(ObsTimeUtc)
       ELSE IF at(ObsTimeLocal) # {} THEN at(ObsTimeLocal)
       ELSE IF timeLike # {} THEN {MinOf(timeLike)}
       ELSE {}

\* C20: fetch_pws_day takes the timestamp from obsTimeUtc, else from
\* obsTimeLocal, else from the first column whose lower-cased name contains
\* "time", else it is null; a value that is no date becomes null, never a
\* default.
C20_TimestampFallback ==
    Ran("pws") =>
        LET columns == norm_in.columns
            want == ExpectedPos(columns)
            got == norm_out[1].timestamp
        IN IF want = {} THEN got = NaT
           ELSE \A i \in want : got = (IF norm_in.parses[i] THEN i ELSE NaT)

\* obsTimeUtc absent, obsTimeLocal behind a time-like column, and taken.
C20_Witness ==
    /\ Ran("pws")
    /\ Len(norm_in.columns) >= 2
    /\ norm_in.columns[1] = QcTime
    /\ norm_in.columns[2] = ObsTimeLocal
    /\ norm_out[1].timestamp = 2

\* C21: no row of a returned table has a null timestamp, and a chunk
\* without a timestamp field does not make the run fail: the TypeError of
\* fetch_asos_for_station is that of the filter on the column it filled
\* with NaT.
C21_NullTimestampsDropped ==
    /\ Returned => \A i \in 1 .. Len(result.rows) : result.rows[i].timestamp # NaT
    /\ ~(/\ prog = "airport" /\ ~LookupRaises
          /\ status = "raised" /\ exc = "TypeError"
          /\ lastLog = <<"warning">>)

\* C22: the rows a fetcher makes for the station it was called with carry
\* that station's id.
C22_CallerStationId ==
    [][/\ (prog \in {"airport", "buoy"} /\ Len(all_frames') > Len(all_frames)) =>
             \A i \in 1 .. Len(all_frames'[Len(all_frames')].rows) :
                 all_frames'[Len(all_frames')].rows[i].station_id = ids[si]
       /\ (prog \in {"build", "pwsall"} /\ Len(all_dfs') > Len(all_dfs)) =>
             \A i \in 1 .. Len(all_dfs'[Len(all_dfs')].rows) :
                 all_dfs'[Len(all_dfs')].rows[i].station_id = ids[si]
      ]_vars

\* C23: over either Station Directory module the lookup of a display name
\* does not raise, and for a station the directory knows the name read via
\* the key 'name' is the station's name.
C23_DirectoriesInterchangeable ==
    Ran("lookup") =>
        /\ norm_out[1].raised = "none"
        /\ norm_in.known => norm_out[1].name = NameValue(norm_in.station_id)

\* The canonical columns of the script that wrote the file.
CanonicalFirst(script) ==
    IF script = "build" THEN <<"timestamp", "station_id">>
    ELSE <<"timestamp", "station_id", "station_name">>

\* C24: the header of the written CSV starts with the canonical columns
\* (timestamp, station_id, and station_name when present) and continues
\* with the provider fields in the order they were first encountered.
C24_CanonicalColumnsFirst ==
    Ran("csv") =>
        norm_out[1] = CanonicalFirst(norm_in.script)
                        \o ConcatColumns(norm_in.first, norm_in.second)
\* C25: the requests of fetch_pws_range are the days of its range, one
\* each, in ascending order, and all of them once the loop has ended.
C25_OneRequestPerDay ==
    (prog \in {"build", "pwsall"} /\ pc = "range") =>
        /\ Len(asked) <= Len(RangeChunks)
        /\ \A i \in 1 .. Len(asked) : asked[i] = RangeChunks[i]
        /\ RangeLoopDone => asked = RangeChunks
\* C26: the names the header deduplication of fetch_ndbc_realtime produces
\* are pairwise distinct.
C26_DedupedNamesDistinct ==
    Ran("header") =>
        \A i, j \in 1 .. Len(norm_out[1]) :
            norm_out[1][i] = norm_out[1][j] => i = j
RangeReturned == prog = "noaa" /\ pc = "station" /\ si > 1

\* C28: the frame fetch_station_range returns has strictly ascending
\* timestamps, holds every observation the chunks delivered, and holds an
\* observation that two chunks delivered with the values of the earlier one.
C28_UniqueAscendingEarlierChunk ==
    RangeReturned =>
        /\ \A i \in 1 .. (Len(result.rows) - 1) :
              result.rows[i].timestamp < result.rows[i + 1].timestamp
        /\ \A j \in 1 .. Len(delivered) :
              \E i \in 1 .. Len(result.rows) :
                  /\ result.rows[i].timestamp = delivered[j].timestamp
                  /\ result.rows[i].req <= delivered[j].req

\* A returned frame of a range in which two chunks delivered the observation
\* of their common boundary, and a later chunk another observation.
C28_Witness ==
    /\ RangeReturned
    /\ Len(result.rows) >= 2
    /\ \E j, k \in 1 .. Len(delivered) :
          /\ delivered[j].timestamp = delivered[k].timestamp
          /\ delivered[j].req < delivered[k].req
====
